---- MODULE Spec2Model ----
(***************************************************************************)
(* Model of source/nhl_data_pipeline.py: pagination discovery              *)
(* (get_pages_url), concurrent fetch and table extraction (extract,        *)
(* get_html_table, save_html_to_zip, save_to_excel) and the per-year       *)
(* aggregation (transform).                                                *)
(*                                                                         *)
(* Strings are sequences of pieces.  A piece is one character; the fixed   *)
(* column names of the workbook are written with a whole word as a piece.  *)
(* Markup is modelled by the elements the code selects: a landing page by  *)
(* the anchors of its pagination list, a listing page by the <tr> rows of  *)
(* its table, each a sequence of <th>/<td> cells.                          *)
(***************************************************************************)
EXTENDS Integers, Sequences, FiniteSets, TLC

VARIABLES
    pc,          \* position of the running function
    landing,     \* response of the landing page (SpecDiscover: the input)
    page_urls,   \* extract: page_urls
    tasks,       \* extract: the fetch tasks handed to asyncio.gather
    completed,   \* task indexes in the order the fetches reached a terminal state
    results,     \* extract: results
    rows,        \* extract: rows
    headers,     \* extract: headers
    page_num,    \* extract: page_num (0: not bound yet)
    zip_file,    \* the archive output/scraped_pages.zip
    workbook,    \* the workbook output/NHL_Stats.xlsx
    calls,       \* the calls extract has made, in order
    log,         \* the "An error occurred" lines printed
    html,        \* SpecParse: the markup handed to get_html_table
    ret          \* SpecParse: what get_html_table returned

vars == <<pc, landing, page_urls, tasks, completed, results, rows, headers,
          page_num, zip_file, workbook, calls, log, html, ret>>

---------------------------------------------------------------------------
(* Bounds *)

MaxLinks == 3
MaxCells == 2
MaxTableRows == 3
MaxSheetRows == 3

---------------------------------------------------------------------------
(* Values *)

None == "None"          \* Python's None; a missing element or attribute
Absent == "absent"      \* a file that does not exist
Unset == "unset"        \* a variable the specification at hand does not use
FetchError == "ClientError"       \* session.get raised
KeyErrorExc == "KeyError"
AttributeErrorExc == "AttributeError"
TypeErrorExc == "TypeError"
NameErrorExc == "NameError"
ValueErrorExc == "ValueError"

BASE_URL == "https://www.scrapethissite.com/pages/forms/"

RECURSIVE SeqsUpTo(_, _)
\* All sequences over S of length at most n.
SeqsUpTo(S, n) ==
    IF n = 0 THEN {<< >>}
    ELSE LET shorter == SeqsUpTo(S, n - 1)
         IN  shorter \cup {Append(s, x) : s \in {t \in shorter : Len(t) = n - 1}, x \in S}

RECURSIVE Concat(_)
\* The concatenation of a sequence of sequences.
Concat(ss) == IF ss = << >> THEN << >> ELSE Head(ss) \o Concat(Tail(ss))

---------------------------------------------------------------------------
(* str *)

\* The characters used, in code point order.
Alphabet == <<" ", "0", "1", "3", "4", "7", "9", "A", "B">>

Ord(c) == CHOOSE i \in 1..Len(Alphabet) : Alphabet[i] = c

IsSpace(c) == c = " "

RECURSIVE LStrip(_)
LStrip(s) == IF s # << >> /\ IsSpace(Head(s)) THEN LStrip(Tail(s)) ELSE s

RECURSIVE RStrip(_)
RStrip(s) ==
    IF s # << >> /\ IsSpace(s[Len(s)]) THEN RStrip(SubSeq(s, 1, Len(s) - 1)) ELSE s

\* str.strip()
Strip(s) == RStrip(LStrip(s))

RECURSIVE StrLess(_, _)
\* a < b on str: by code point, a proper prefix is smaller.
StrLess(a, b) ==
    IF b = << >> THEN FALSE
    ELSE IF a = << >> THEN TRUE
    ELSE IF Head(a) # Head(b) THEN Ord(Head(a)) < Ord(Head(b))
    ELSE StrLess(Tail(a), Tail(b))

RECURSIVE ParseInt(_)
\* The integer a string of digits denotes.
ParseInt(s) ==
    IF s = << >> THEN 0
    ELSE 10 * ParseInt(SubSeq(s, 1, Len(s) - 1)) + (Ord(s[Len(s)]) - Ord("0"))

---------------------------------------------------------------------------
(* Markup *)

\* <a> elements: href and aria-label are attribute values, None when missing.
Hrefs == {"?page_num=1", "?page_num=2"}
AriaLabels == {"Previous", "Next", "Page"}
Anchors == [href : Hrefs \cup {None}, aria : AriaLabels \cup {None}]

\* <ul> elements with their class names and the <a> elements inside.
Uls == [class : {{"pagination"}, {"nav"}}, anchors : SeqsUpTo(Anchors, MaxLinks)]

\* What fetch_page(session, BASE_URL) gives: the landing markup, or an exception.
LandingResponses ==
    {[ok |-> FALSE, uls |-> << >>]}
        \cup {[ok |-> TRUE, uls |-> u] : u \in SeqsUpTo(Uls, 1)}

\* <th>/<td> cells with their text, <tr> rows, <table> elements.
Th(t) == [tag |-> "th", text |-> t]
Td(t) == [tag |-> "td", text |-> t]
CellTexts == {<<"A">>, <<" ", "B", " ">>}
Cells == [tag : {"th", "td"}, text : CellTexts]
\* Rows of at most n cells, tables of at most m such rows.
Trs(n) == SeqsUpTo(Cells, n)
Tables(n, m) == [class : {{"table"}, {"grid"}}, trs : SeqsUpTo(Trs(n), m)]

\* The listing pages the site serves in the model of extract().
DocA ==
    << [class |-> {"table", "striped"},
        trs |-> << <<Th(<<"Team", " ", "Name">>), Th(<<"Wins">>)>>,
                   <<Td(<<"A">>), Td(<<"4", "4">>)>> >>] >>
DocB ==
    << [class |-> {"table"},
        trs |-> << <<Th(<<" ", "Team", " ">>), Th(<<"Wins">>)>>,
                   << >>,
                   <<Td(<<"B">>), Td(<<" ", "9", " ">>)>> >>] >>
DocNoTable == << [class |-> {"grid"}, trs |-> << <<Td(<<"A">>)>> >>] >>
PageDocs == {DocA, DocB, DocNoTable}

---------------------------------------------------------------------------
(* get_pages_url *)

\* soup.find(name, class_=cls): the first element carrying the class, or None.
Find(elements, cls) ==
    LET hits == SelectSeq(elements, LAMBDA e : cls \in e.class)
    IN  IF hits = << >> THEN [found |-> FALSE] ELSE [found |-> TRUE, el |-> Head(hits)]

\* pagination.find_all("a", attrs={"aria-label": False})
WithoutAriaLabel(anchors) == SelectSeq(anchors, LAMBDA a : a.aria = None)

\* get_pages_url(session), given what fetching BASE_URL gives: the page urls
\* returned and the exception caught and printed (None: none).
get_pages_url(response) ==
    IF ~response.ok THEN [page_urls |-> << >>, exc |-> FetchError]
    ELSE LET pagination == Find(response.uls, "pagination")
         IN  IF ~pagination.found THEN [page_urls |-> << >>, exc |-> None]
             ELSE LET links == WithoutAriaLabel(pagination.el.anchors)
                  IN  IF \E i \in 1..Len(links) : links[i].href = None
                      THEN [page_urls |-> << >>, exc |-> KeyErrorExc]
                      ELSE [page_urls |-> [i \in 1..Len(links) |-> links[i].href],
                            exc |-> None]

---------------------------------------------------------------------------
(* get_html_table *)

\* [x.text.strip() for x in tr.find_all(tag)]
CellTextsOf(tr, tag) ==
    LET cells == SelectSeq(tr, LAMBDA c : c.tag = tag)
    IN  [i \in 1..Len(cells) |-> Strip(cells[i].text)]

\* [th.text.strip() for th in table.find_all("th")]
HeadersOf(table) == Concat([i \in 1..Len(table.trs) |-> CellTextsOf(table.trs[i], "th")])

RECURSIVE AppendRows(_, _)
\* The loop over table.find_all("tr")[1:], given the rows left: rows with no
\* <td> are skipped.
AppendRows(acc, trs) ==
    IF trs = << >> THEN acc
    ELSE LET cells == CellTextsOf(Head(trs), "td")
         IN  AppendRows(IF cells # << >> THEN Append(acc, cells) ELSE acc, Tail(trs))

\* get_html_table(html, rows): none is TRUE when the exception handler ran and
\* the function returned None.
get_html_table(doc, acc) ==
    LET table == Find(doc, "table")
    IN  IF ~table.found
        THEN [none |-> TRUE, rows |-> acc, headers |-> << >>, exc |-> AttributeErrorExc]
        ELSE [none |-> FALSE,
              rows |-> AppendRows(acc, IF table.el.trs = << >> THEN << >> ELSE Tail(table.el.trs)),
              headers |-> HeadersOf(table.el),
              exc |-> None]

---------------------------------------------------------------------------
(* extract *)

\* urllib.parse.urljoin(BASE_URL, page_url): the reference resolved against the base.
urljoin(base, ref) == [base |-> base, ref |-> ref]

\* f"{page_num}.html"
FileName(n) == [stem |-> n, ext |-> ".html"]

\* save_to_excel(rows, headers): a new workbook whose only sheet
\* holds the headers as its first row and then the rows.
save_to_excel(rs, hs) == [state |-> "written", header |-> hs, rows |-> rs, summary |-> << >>]

Printed(fn, exc) == [fn |-> fn, exc |-> exc]
Call(fn, n) == [fn |-> fn, page |-> n]

Init ==
    /\ pc = "get_pages_url"
    /\ landing = "pending"
    /\ page_urls = << >>
    /\ tasks = << >>
    /\ completed = << >>
    /\ results = << >>
    /\ rows = << >>
    /\ headers = << >>
    /\ page_num = 0
    /\ \E prev \in {Absent, "old"} :
          /\ zip_file = [state |-> prev, names |-> << >>]
          /\ workbook = [state |-> prev, header |-> << >>, rows |-> << >>, summary |-> << >>]
    /\ calls = << >>
    /\ log = << >>
    /\ html = Unset
    /\ ret = Unset

\* page_urls = await get_pages_url(session)
GetPagesUrl ==
    /\ pc = "get_pages_url"
    /\ \E response \in LandingResponses :
          LET r == get_pages_url(response)
          IN  /\ page_urls' = r.page_urls
              /\ landing' = IF response.ok THEN "ok" ELSE "failed"
              /\ log' = IF r.exc # None THEN Append(log, Printed("get_pages_url", r.exc)) ELSE log
    /\ pc' = "dispatch"
    /\ UNCHANGED <<tasks, completed, results, rows, headers, page_num, zip_file,
                   workbook, calls, html, ret>>

\* tasks = [fetch_page(session, urljoin(BASE_URL, page_url)) for page_url in page_urls],
\* started by asyncio.gather.
Dispatch ==
    /\ pc = "dispatch"
    /\ tasks' = [i \in 1..Len(page_urls) |->
                    [state |-> "running", url |-> urljoin(BASE_URL, page_urls[i]),
                     html |-> << >>]]
    /\ pc' = "gather"
    /\ UNCHANGED <<landing, page_urls, completed, results, rows, headers, page_num,
                   zip_file, workbook, calls, log, html, ret>>

\* fetch_page of task i returns the page's markup.
FetchDone(i) ==
    /\ pc = "gather"
    /\ tasks[i].state = "running"
    /\ \E doc \in PageDocs :
          tasks' = [tasks EXCEPT ![i] = [@ EXCEPT !.state = "done", !.html = doc]]
    /\ completed' = Append(completed, i)
    /\ UNCHANGED <<pc, landing, page_urls, results, rows, headers, page_num, zip_file,
                   workbook, calls, log, html, ret>>

\* fetch_page of task i raises.
FetchFail(i) ==
    /\ pc = "gather"
    /\ tasks[i].state = "running"
    /\ tasks' = [tasks EXCEPT ![i] = [@ EXCEPT !.state = "failed"]]
    /\ completed' = Append(completed, i)
    /\ UNCHANGED <<pc, landing, page_urls, results, rows, headers, page_num, zip_file,
                   workbook, calls, log, html, ret>>

GatherResultsByCompletion == [k \in 1..Len(completed) |-> tasks[completed[k]].html]

\* What asyncio.gather(*tasks) returns: the tasks' results in the order of the tasks.
GatherResults == [i \in 1..Len(tasks) |-> tasks[i].html]

\* results = await asyncio.gather(*tasks), every task having returned.
GatherReturn ==
    /\ pc = "gather"
    /\ \A i \in 1..Len(tasks) : tasks[i].state = "done"
    /\ results' = GatherResults
    /\ pc' = "open_zip"
    /\ UNCHANGED <<landing, page_urls, tasks, completed, rows, headers, page_num,
                   zip_file, workbook, calls, log, html, ret>>

\* await asyncio.gather(*tasks) raises the first exception of a task (no
\* return_exceptions); extract's handler prints it and the run ends, the tasks
\* still running being cancelled when the event loop shuts down.
GatherRaise ==
    /\ pc = "gather"
    /\ \E i \in 1..Len(tasks) : tasks[i].state = "failed"
    /\ tasks' = [i \in 1..Len(tasks) |->
                    IF tasks[i].state = "running"
                    THEN [tasks[i] EXCEPT !.state = "cancelled"] ELSE tasks[i]]
    /\ log' = Append(log, Printed("extract", FetchError))
    /\ pc' = "done"
    /\ UNCHANGED <<landing, page_urls, completed, results, rows, headers, page_num,
                   zip_file, workbook, calls, html, ret>>

\* rows = []; headers = []; with zipfile.ZipFile(OUTPUT_ZIP, "w") as zip_file:
\* opening for writing creates the archive or empties the one of an earlier
\* run.  The output directory is taken to exist and file I/O to succeed, here
\* and in the sinks.
OpenZip ==
    /\ pc = "open_zip"
    /\ rows' = << >>
    /\ headers' = << >>
    /\ zip_file' = [state |-> "written", names |-> << >>]
    /\ pc' = "loop"
    /\ UNCHANGED <<landing, page_urls, tasks, completed, results, page_num, workbook,
                   calls, log, html, ret>>

ParsePageKeepFirstHeader ==
    /\ pc = "loop"
    /\ page_num < Len(results)
    /\ LET r == get_html_table(results[page_num + 1], rows)
       IN  /\ page_num' = page_num + 1
           /\ calls' = Append(calls, Call("get_html_table", page_num + 1))
           /\ IF r.none
              THEN /\ log' = log \o <<Printed("get_html_table", r.exc),
                                      Printed("extract", TypeErrorExc)>>
                   /\ pc' = "done"
                   /\ UNCHANGED <<rows, headers>>
              ELSE /\ rows' = r.rows
                   /\ headers' = IF page_num = 0 THEN r.headers ELSE headers
                   /\ pc' = "save_zip"
                   /\ log' = log
    /\ UNCHANGED <<landing, page_urls, tasks, completed, results, zip_file, workbook,
                   html, ret>>

\* for page_num, html in enumerate(results, start=1):
\*     rows, headers = get_html_table(html, rows)
\* When get_html_table returned None the unpacking raises TypeError, which leaves
\* the loop and the with block for extract's handler.
ParsePage ==
    /\ pc = "loop"
    /\ page_num < Len(results)
    /\ LET r == get_html_table(results[page_num + 1], rows)
       IN  /\ page_num' = page_num + 1
           /\ calls' = Append(calls, Call("get_html_table", page_num + 1))
           /\ IF r.none
              THEN /\ log' = log \o <<Printed("get_html_table", r.exc),
                                      Printed("extract", TypeErrorExc)>>
                   /\ pc' = "done"
                   /\ UNCHANGED <<rows, headers>>
              ELSE /\ rows' = r.rows
                   /\ headers' = r.headers
                   /\ pc' = "save_zip"
                   /\ log' = log
    /\ UNCHANGED <<landing, page_urls, tasks, completed, results, zip_file, workbook,
                   html, ret>>

\* save_html_to_zip(zip_file, html, page_num)
SavePage ==
    /\ pc = "save_zip"
    /\ zip_file' = [zip_file EXCEPT !.names = Append(@, FileName(page_num))]
    /\ calls' = Append(calls, Call("save_html_to_zip", page_num))
    /\ pc' = "loop"
    /\ UNCHANGED <<landing, page_urls, tasks, completed, results, rows, headers,
                   page_num, workbook, log, html, ret>>

SaveToExcelInLoop ==
    /\ pc = "loop"
    /\ page_num >= 1
    /\ calls[Len(calls)].fn = "save_html_to_zip"
    /\ workbook' = save_to_excel(rows, headers)
    /\ calls' = Append(calls, Call("save_to_excel", 0))
    /\ pc' = IF page_num = Len(results) THEN "print" ELSE "loop"
    /\ UNCHANGED <<landing, page_urls, tasks, completed, results, rows, headers,
                   page_num, zip_file, log, html, ret>>

\* save_to_excel(rows, headers), after the loop and the with block.
SaveToExcel ==
    /\ pc = "loop"
    /\ page_num = Len(results)
    /\ workbook' = save_to_excel(rows, headers)
    /\ calls' = Append(calls, Call("save_to_excel", 0))
    /\ pc' = "print"
    /\ UNCHANGED <<landing, page_urls, tasks, completed, results, rows, headers,
                   page_num, zip_file, log, html, ret>>

\* print(f"Scraped {page_num} pages ..."): page_num is not bound when the loop
\* had nothing to run over, and the NameError goes to extract's handler.
PrintSummary ==
    /\ pc = "print"
    /\ log' = IF page_num = 0 THEN Append(log, Printed("extract", NameErrorExc)) ELSE log
    /\ pc' = "done"
    /\ UNCHANGED <<landing, page_urls, tasks, completed, results, rows, headers,
                   page_num, zip_file, workbook, calls, html, ret>>

Next ==
    \/ GetPagesUrl
    \/ Dispatch
    \/ \E i \in 1..Len(tasks) : FetchDone(i)
    \/ \E i \in 1..Len(tasks) : FetchFail(i)
    \/ GatherReturn
    \/ GatherRaise
    \/ OpenZip
    \/ ParsePage
    \/ SavePage
    \/ SaveToExcel
    \/ PrintSummary

Spec == Init /\ [][Next]_vars

---------------------------------------------------------------------------
(* Properties of extract *)

NumPages == Len(tasks)
AllFetched == \A i \in 1..NumPages : tasks[i].state = "done"

\* What page i (by sequence number) contributes, parsed on its own.
PageParse(i) == get_html_table(tasks[i].html, << >>)
PageRows(i) == IF PageParse(i).none THEN << >> ELSE PageParse(i).rows
PageHeader(i) == PageParse(i).headers

\* The rows of the pages in S, in ascending sequence number.
RowsOfPages(S) == Concat([i \in 1..NumPages |-> IF i \in S THEN PageRows(i) ELSE << >>])

SinkCalls == {"save_html_to_zip", "save_to_excel"}
CallsOf(fn) == SelectSeq(calls, LAMBDA c : c.fn = fn)

\* parse 1, archive 1, ..., parse n, archive n, then the workbook.
ExpectedCalls(n) ==
    Concat([i \in 1..n |-> <<Call("get_html_table", i), Call("save_html_to_zip", i)>>])
        \o <<Call("save_to_excel", 0)>>

IsPrefix(s, t) == Len(s) <= Len(t) /\ SubSeq(t, 1, Len(s)) = s

\* C1: when exactly one page's fetch fails and the others succeed, the run
\* still hands the workbook sink the rows of the other pages, in ascending page
\* order, and the failure is printed.  Stated for the runs in which the other
\* pages all hold a table and some of them hold rows.
C1_PartialFetchFailureIsolated ==
    (/\ pc = "done"
     /\ \E k \in 1..NumPages :
           /\ tasks[k].state = "failed"
           /\ \A i \in 1..NumPages \ {k} : tasks[i].state = "done" /\ ~PageParse(i).none
           /\ \E i \in 1..NumPages \ {k} : PageRows(i) # << >>)
    => /\ workbook.state = "written"
       /\ workbook.rows = RowsOfPages({i \in 1..NumPages : tasks[i].state = "done"})
       /\ \E j \in 1..Len(log) : log[j].exc = FetchError

\* C2: whatever the order in which the fetches complete, the rows collected so
\* far are those of the pages parsed so far in ascending sequence number, each
\* page's rows in document order, and nothing is parsed before every dispatched
\* fetch has returned.
C2_RowsInPageOrder ==
    /\ rows = RowsOfPages(1..page_num)
    /\ workbook.state = "written" => workbook.rows = RowsOfPages(1..NumPages)
    /\ (pc \in {"open_zip", "loop", "save_zip", "print"} \/ calls # << >>) => AllFetched

C2_Witness ==
    /\ workbook.state = "written"
    /\ NumPages >= 2
    /\ completed[1] > completed[2]
    /\ PageRows(1) # << >>
    /\ PageRows(2) # << >>
    /\ PageRows(1) # PageRows(2)

\* C7: when every page is fetched and some page has no table, the run still
\* hands the workbook sink the rows of the other pages in ascending page order.
\* Stated for the runs in which some other page holds rows.
C7_ParseFailureIsolated ==
    (/\ pc = "done"
     /\ AllFetched
     /\ \E k \in 1..NumPages : PageParse(k).none
     /\ \E i \in 1..NumPages : PageRows(i) # << >>)
    => /\ workbook.state = "written"
       /\ workbook.rows = RowsOfPages(1..NumPages)

\* C8: when the fetch of the landing page fails, no page fetch is dispatched,
\* no sink is called and neither the archive nor the workbook is created or
\* overwritten.
C8_LandingFailureFatal ==
    landing = "failed"
    => /\ tasks = << >>
       /\ calls = << >>
       /\ zip_file.state # "written"
       /\ workbook.state # "written"

C10_SinksAfterAllParsing ==
    /\ \A i, j \in 1..Len(calls) :
          (i < j /\ calls[i].fn \in SinkCalls) => calls[j].fn # "get_html_table"
    /\ (pc = "done" /\ AllFetched /\ \A k \in 1..NumPages : ~PageParse(k).none) =>
          /\ CallsOf("save_html_to_zip")
                = [i \in 1..Cardinality({t \in 1..NumPages : tasks[t].state = "done"})
                      |-> Call("save_html_to_zip", i)]
          /\ Len(CallsOf("save_to_excel")) = 1

\* C10 as amended: no call is made before every dispatched fetch has returned;
\* page n is archived under the name n.html right after it is parsed and before
\* page n+1 is parsed; the workbook sink is called last, after every page was
\* parsed and archived; a run cut short makes a prefix of these calls.
C10_CallsInterleaved ==
    /\ IsPrefix(calls, ExpectedCalls(NumPages))
    /\ calls # << >> => AllFetched
    /\ zip_file.names
          = [i \in 1..Len(CallsOf("save_html_to_zip")) |-> FileName(i)]
    /\ workbook.state = "written" <=> (calls = ExpectedCalls(NumPages))

C10_Witness ==
    /\ pc = "done"
    /\ NumPages >= 2
    /\ calls = ExpectedCalls(NumPages)

---------------------------------------------------------------------------
(* get_pages_url on its own *)

InitDiscover ==
    /\ pc = "get_pages_url"
    /\ landing \in LandingResponses
    /\ page_urls = << >>
    /\ log = << >>
    /\ tasks = << >> /\ completed = << >> /\ results = << >> /\ rows = << >>
    /\ headers = << >> /\ page_num = 0 /\ calls = << >>
    /\ zip_file = Unset /\ workbook = Unset /\ html = Unset /\ ret = Unset

\* get_pages_url(session) with the landing page answering `landing`.
CallGetPagesUrl ==
    /\ pc = "get_pages_url"
    /\ LET r == get_pages_url(landing)
       IN  /\ page_urls' = r.page_urls
           /\ log' = IF r.exc # None THEN Append(log, Printed("get_pages_url", r.exc)) ELSE log
    /\ pc' = "returned"
    /\ UNCHANGED <<landing, tasks, completed, results, rows, headers, page_num,
                   zip_file, workbook, calls, html, ret>>

NextDiscover == CallGetPagesUrl

SpecDiscover == InitDiscover /\ [][NextDiscover]_vars

\* The hrefs of the links of the pagination control that are not labelled as
\* previous/next controls, in document order.
PageLinks(anchors) ==
    LET links == SelectSeq(anchors,
                     LAMBDA a : a.href # None /\ a.aria \notin {"Previous", "Next"})
    IN  [i \in 1..Len(links) |-> links[i].href]

\* C3: get_pages_url returns exactly the hrefs of the links of the pagination
\* control that are not labelled previous/next, in document order, and the
\* empty sequence when the landing page has no pagination control.
C3_ExactlyThePageLinks ==
    (pc = "returned" /\ landing.ok)
    => LET pagination == Find(landing.uls, "pagination")
       IN  page_urls = IF pagination.found THEN PageLinks(pagination.el.anchors) ELSE << >>

---------------------------------------------------------------------------
(* get_html_table on its own *)

\* Rows collected from earlier pages.
EarlierRows == {<< >>, << <<"A">>, <<"B">> >>}

InitParse ==
    /\ pc = "get_html_table"
    /\ html \in SeqsUpTo(Tables(MaxCells, MaxTableRows), 1)
    /\ rows \in EarlierRows
    /\ ret = [none |-> TRUE, rows |-> << >>, headers |-> << >>, exc |-> None]
    /\ log = << >>
    /\ tasks = << >> /\ completed = << >> /\ results = << >> /\ page_urls = << >>
    /\ headers = << >> /\ page_num = 0 /\ calls = << >>
    /\ zip_file = Unset /\ workbook = Unset /\ landing = Unset

\* get_html_table(html, rows)
CallGetHtmlTable ==
    /\ pc = "get_html_table"
    /\ ret' = get_html_table(html, rows)
    /\ log' = IF ret'.none THEN Append(log, Printed("get_html_table", ret'.exc)) ELSE log
    /\ pc' = "returned"
    /\ UNCHANGED <<landing, page_urls, tasks, completed, results, rows, headers,
                   page_num, zip_file, workbook, calls, html>>

NextParse == CallGetHtmlTable

SpecParse == InitParse /\ [][NextParse]_vars

\* One row per <tr> that has at least one <td>, holding its trimmed <td> texts.
DataRows(trs) ==
    LET kept == SelectSeq(trs, LAMBDA tr : \E i \in 1..Len(tr) : tr[i].tag = "td")
    IN  [i \in 1..Len(kept) |-> CellTextsOf(kept[i], "td")]

\* C4: for a page with a qualifying table, the header returned is the trimmed
\* texts of the <th> cells of the table's first row, and the rows returned are
\* the rows handed in followed by one row per later <tr> with at least one <td>.
C4_HeaderOfFirstRowAndDataRows ==
    (pc = "returned" /\ Find(html, "table").found)
    => LET trs == Find(html, "table").el.trs
       IN  /\ ~ret.none
           /\ ret.headers = IF trs = << >> THEN << >> ELSE CellTextsOf(Head(trs), "th")
           /\ ret.rows = rows \o (IF trs = << >> THEN << >> ELSE DataRows(Tail(trs)))

---------------------------------------------------------------------------
(* transform *)

\* A dict is the sequence of its items in insertion order, keys distinct.
DictHas(d, k) == \E i \in 1..Len(d) : d[i].key = k
DictGet(d, k) == d[CHOOSE i \in 1..Len(d) : d[i].key = k].value
\* d[k] = v: a new key goes last, a key already there keeps its place.
DictSet(d, k, v) ==
    IF DictHas(d, k)
    THEN [i \in 1..Len(d) |-> IF d[i].key = k THEN [key |-> k, value |-> v] ELSE d[i]]
    ELSE Append(d, [key |-> k, value |-> v])

\* header.index(name): 0 stands for the ValueError of a missing name.
Index(header, name) ==
    IF \E i \in 1..Len(header) : header[i] = name
    THEN CHOOSE i \in 1..Len(header) :
            header[i] = name /\ \A j \in 1..(i - 1) : header[j] # name
    ELSE 0

\* a < b on the values of the Wins column as the workbook holds them: the cells
\* were written as str and are read back as str.
ValueLess(a, b) == StrLess(a, b)

RECURSIVE PyMaxFrom(_, _, _)
\* max(teams, key=teams.get), past its first item: a later key replaces the
\* best one only when its value is greater.
PyMaxFrom(teams, best, i) ==
    IF i > Len(teams) THEN best
    ELSE PyMaxFrom(teams,
                   IF ValueLess(DictGet(teams, best), teams[i].value) THEN teams[i].key ELSE best,
                   i + 1)
PyMax(teams) == PyMaxFrom(teams, teams[1].key, 2)

RECURSIVE PyMinFrom(_, _, _)
\* min(teams, key=teams.get)
PyMinFrom(teams, best, i) ==
    IF i > Len(teams) THEN best
    ELSE PyMinFrom(teams,
                   IF ValueLess(teams[i].value, DictGet(teams, best)) THEN teams[i].key ELSE best,
                   i + 1)
PyMin(teams) == PyMinFrom(teams, teams[1].key, 2)

RECURSIVE BuildStats(_, _, _, _, _)
\* The loop over ws.iter_rows(min_row=2): stats[year][team] = wins.
BuildStats(stats, sheet, year_idx, team_idx, wins_idx) ==
    IF sheet = << >> THEN stats
    ELSE LET row == Head(sheet)
             year == row[year_idx]
             teams == IF DictHas(stats, year) THEN DictGet(stats, year) ELSE << >>
         IN  BuildStats(DictSet(stats, year, DictSet(teams, row[team_idx], row[wins_idx])),
                        Tail(sheet), year_idx, team_idx, wins_idx)

\* The rows appended to sheet_2_headers after its fixed first row: one per year
\* of stats, in insertion order.
SummaryRows(stats) ==
    [i \in 1..Len(stats) |->
        LET teams == stats[i].value
            winner == PyMax(teams)
            loser == PyMin(teams)
        IN  [year |-> stats[i].key,
             winner |-> winner, winner_wins |-> DictGet(teams, winner),
             loser |-> loser, loser_wins |-> DictGet(teams, loser)]]

ColYear == <<"Year">>
ColTeam == <<"Team", " ", "Name">>
ColWins == <<"Wins">>

\* transform(), given the workbook: the aggregate rows written to the second
\* sheet, or the exception its handler prints.
transform(wb) ==
    LET year_idx == Index(wb.header, ColYear)
        team_idx == Index(wb.header, ColTeam)
        wins_idx == Index(wb.header, ColWins)
    IN  IF wb.state = Absent \/ year_idx = 0 \/ team_idx = 0 \/ wins_idx = 0
        THEN [exc |-> IF wb.state = Absent THEN "FileNotFoundError" ELSE ValueErrorExc,
              summary |-> << >>]
        ELSE [exc |-> None,
              summary |-> SummaryRows(BuildStats(<< >>, wb.rows, year_idx, team_idx, wins_idx))]

\* The cells the extraction phase wrote: td.text.strip() of the listing pages.
Years == {<<"1", "9", "9", "0">>, <<"1", "9", "9", "1">>}
Teams == {<<"A">>, <<"B">>}
WinsCells == {<<"9">>, <<"1", "0">>, <<"4", "4">>}
Records == [year : Years, team : Teams, wins : WinsCells]
SheetHeaders == {<<ColYear, ColTeam, ColWins>>, <<ColTeam, ColWins, ColYear>>, <<ColTeam, ColWins>>}

\* A record laid out under a header.
RowUnder(header, rec) ==
    [i \in 1..Len(header) |->
        IF header[i] = ColYear THEN rec.year
        ELSE IF header[i] = ColTeam THEN rec.team ELSE rec.wins]

InitTransform ==
    /\ pc = "transform"
    /\ \E header \in SheetHeaders, recs \in SeqsUpTo(Records, MaxSheetRows) :
          workbook = save_to_excel([i \in 1..Len(recs) |-> RowUnder(header, recs[i])], header)
    /\ log = << >>
    /\ tasks = << >> /\ completed = << >> /\ results = << >> /\ page_urls = << >>
    /\ rows = << >> /\ headers = << >> /\ page_num = 0 /\ calls = << >>
    /\ zip_file = Unset /\ landing = Unset /\ html = Unset /\ ret = Unset

\* transform()
CallTransform ==
    /\ pc = "transform"
    /\ LET r == transform(workbook)
       IN  IF r.exc # None
           THEN /\ log' = Append(log, Printed("transform", r.exc))
                /\ UNCHANGED workbook
           ELSE /\ workbook' = [workbook EXCEPT !.summary = r.summary]
                /\ log' = log
    /\ pc' = "returned"
    /\ UNCHANGED <<landing, page_urls, tasks, completed, results, rows, headers,
                   page_num, zip_file, calls, html, ret>>

NextTransform == CallTransform

SpecTransform == InitTransform /\ [][NextTransform]_vars

\* The (label, value) entries of a year in the rows of the primary sheet, in
\* row order.
GroupEntries(wb, year) ==
    LET y == Index(wb.header, ColYear)
        t == Index(wb.header, ColTeam)
        w == Index(wb.header, ColWins)
        group == SelectSeq(wb.rows, LAMBDA row : row[y] = year)
    IN  [i \in 1..Len(group) |-> [label |-> group[i][t], value |-> group[i][w]]]

Transformed == pc = "returned" /\ log = << >>

DistinctLabels(group) ==
    \A j, k \in 1..Len(group) : group[j].label = group[k].label => j = k

\* C5: the Winner value of an aggregate row is at least, and its Loser value at
\* most, every value of its group, the values being the integers the cells
\* denote.  Stated for the groups in which no label repeats.
C5_WinnerAndLoserBoundTheGroup ==
    Transformed
    => \A i \in 1..Len(workbook.summary) :
          LET agg == workbook.summary[i]
              group == GroupEntries(workbook, agg.year)
          IN  DistinctLabels(group)
              => \A j \in 1..Len(group) :
                    /\ ParseInt(agg.winner_wins) >= ParseInt(group[j].value)
                    /\ ParseInt(agg.loser_wins) <= ParseInt(group[j].value)

\* The first entry of a group, in row order, holding the greatest value.
FirstMax(group) ==
    group[CHOOSE j \in 1..Len(group) :
             /\ \A k \in 1..Len(group) : ParseInt(group[k].value) <= ParseInt(group[j].value)
             /\ \A k \in 1..(j - 1) : ParseInt(group[k].value) # ParseInt(group[j].value)]

\* The first entry of a group, in row order, holding the least value.
FirstMin(group) ==
    group[CHOOSE j \in 1..Len(group) :
             /\ \A k \in 1..Len(group) : ParseInt(group[k].value) >= ParseInt(group[j].value)
             /\ \A k \in 1..(j - 1) : ParseInt(group[k].value) # ParseInt(group[j].value)]

\* Values of one length and no leading zero: their order as str is their order
\* as integers.
SameWidth(group) ==
    \A j, k \in 1..Len(group) :
        Len(group[j].value) = Len(group[k].value) /\ Head(group[j].value) # "0"

\* C6: the Winner of a group is its first entry, in row order, holding the
\* maximum value and the Loser its first entry holding the minimum value, also
\* when a label occurs in several rows of the group.  Stated for the groups
\* whose values have one width.
C6_FirstSeenWinsTies ==
    Transformed
    => \A i \in 1..Len(workbook.summary) :
          LET agg == workbook.summary[i]
              group == GroupEntries(workbook, agg.year)
              first_max == FirstMax(group)
              first_min == FirstMin(group)
          IN  SameWidth(group)
              => /\ agg.winner = first_max.label /\ agg.winner_wins = first_max.value
                 /\ agg.loser = first_min.label /\ agg.loser_wins = first_min.value

====
